---- MODULE Spec2Model ----
(***************************************************************************)
(* A model of gcp_log_toolbox.py: the sink (writeOutput), the confirmation *)
(* prompt (continuePrompt), the gcloud array normalizer (gcloudFormatter), *)
(* the path filter (filterLog), the temporal extractors (timeslice,        *)
(* timeframe, getTimeDeltas) and the merge (mergeLogs).                    *)
(*                                                                         *)
(* Text (file content, lines, the output file) is a sequence of            *)
(* one-character strings, so that strip(), startswith(), slicing,          *)
(* json.loads and json.dump act on characters as they do in Python.        *)
(***************************************************************************)
EXTENDS Integers, Sequences, FiniteSets, TLC

VARIABLES
    op,       \* the task main() dispatched to
    pc,       \* "prompt" | "run" | "done" | "aborted" | "exited"
    args,     \* the arguments of the running function
    file,     \* the input: the lines of the input file, or the file listing
    pos,      \* how many lines (files) of the input the loop has consumed
    output,   \* the text of the output file
    log,      \* gcloudFormatter's accumulation buffer `log`
    count,    \* gcloudFormatter's `count`
    win,      \* <<startDateTime, endDateTime>> of timeslice / timeframe
    filterList \* filterLog's parsed conditions

vars == <<op, pc, args, file, pos, output, log, count, win, filterList>>

---------------------------------------------------------------------------
(* Characters and small text helpers.                                      *)

Q == "\""
NL == "\n"
CR == "\r"
SP == " "
WsChars == {" ", "\n", "\r", "\t"}
DigitSeq == <<"0", "1", "2", "3", "4", "5", "6", "7", "8", "9">>
DigitChars == {DigitSeq[i] : i \in 1..10}

DigitVal(c) == (CHOOSE i \in 1..10 : DigitSeq[i] = c) - 1

RECURSIVE Digits(_)
Digits(n) == IF n < 10 THEN <<DigitSeq[n + 1]>>
             ELSE Digits(n \div 10) \o <<DigitSeq[(n % 10) + 1]>>

RECURSIVE Spaces(_)
Spaces(n) == IF n = 0 THEN <<>> ELSE <<SP>> \o Spaces(n - 1)

RECURSIVE Concat(_)
Concat(ss) == IF ss = <<>> THEN <<>> ELSE Head(ss) \o Concat(Tail(ss))

\* s[a:b] of Python for 0 <= a, b (b may exceed len(s)).
Slice(s, a, b) == SubSeq(s, a + 1, IF b < Len(s) THEN b ELSE Len(s))

\* s[:-n] of Python.
DropLast(s, n) == SubSeq(s, 1, Len(s) - n)

\* s.startswith(p)
StartsWith(s, p) == Len(s) >= Len(p) /\ SubSeq(s, 1, Len(p)) = p

\* s.endswith(p)
EndsWith(s, p) ==
    Len(s) >= Len(p) /\ SubSeq(s, Len(s) - Len(p) + 1, Len(s)) = p

RECURSIVE LStrip(_)
LStrip(s) == IF s # <<>> /\ Head(s) \in WsChars THEN LStrip(Tail(s)) ELSE s

RECURSIVE RStrip(_)
RStrip(s) == IF s # <<>> /\ s[Len(s)] \in WsChars
             THEN RStrip(SubSeq(s, 1, Len(s) - 1)) ELSE s

\* s.strip()
Strip(s) == RStrip(LStrip(s))

\* s.split(sep) for a one-character sep: the parts between the separators
\* (one part more than there are separators).
RECURSIVE SplitFrom(_, _, _, _)
SplitFrom(s, sep, i, cur) ==
    IF i > Len(s) THEN <<cur>>
    ELSE IF s[i] = sep THEN <<cur>> \o SplitFrom(s, sep, i + 1, <<>>)
    ELSE SplitFrom(s, sep, i + 1, Append(cur, s[i]))

Split(s, sep) == SplitFrom(s, sep, 1, <<>>)

\* sep.join(parts)
RECURSIVE Join(_, _)
Join(parts, sep) ==
    IF parts = <<>> THEN <<>>
    ELSE IF Len(parts) = 1 THEN parts[1]
    ELSE parts[1] \o <<sep>> \o Join(Tail(parts), sep)

---------------------------------------------------------------------------
(* JSON values as Python holds them after json.loads: a tagged tree (a  *)
(* record with one field, named after the type).                           *)
(* A dict is the sequence of its <<key, value>> items in insertion order.  *)

JStr(s) == [str |-> s]
JNum(n) == [num |-> n]
JBool(b) == [bool |-> b]
JNull == [null |-> 0]
JArr(s) == [arr |-> s]
JObj(s) == [obj |-> s]

\* type(x), and the content of x.
T(x) == CHOOSE k \in DOMAIN x : TRUE
V(x) == x[T(x)]

Keys(o) == {V(o)[i][1] : i \in 1..Len(V(o))}
HasKey(o, k) == \E i \in 1..Len(V(o)) : V(o)[i][1] = k
\* The value a dict holds for k: the last item stored under k.
Get(o, k) ==
    V(o)[CHOOSE i \in 1..Len(V(o)) :
            V(o)[i][1] = k /\ \A j \in (i + 1)..Len(V(o)) : V(o)[j][1] # k][2]

\* Equality of two JSON values: dicts compare as mappings, whatever the
\* order of their items.
RECURSIVE JsonEq(_, _)
JsonEq(a, b) ==
    IF T(a) # T(b) THEN FALSE
    ELSE IF T(a) = "arr"
    THEN Len(V(a)) = Len(V(b)) /\ \A i \in 1..Len(V(a)) : JsonEq(V(a)[i], V(b)[i])
    ELSE IF T(a) = "obj"
    THEN Keys(a) = Keys(b) /\ \A k \in Keys(a) : JsonEq(Get(a, k), Get(b, k))
    ELSE V(a) = V(b)

---------------------------------------------------------------------------
(* json.dumps(data) with the default separators (", " and ": ").           *)

RECURSIVE Dumps(_), DumpItems(_, _), DumpMembers(_, _)
Dumps(x) ==
    IF T(x) = "str" THEN <<Q>> \o V(x) \o <<Q>>
    ELSE IF T(x) = "num" THEN Digits(V(x))
    ELSE IF T(x) = "bool"
    THEN (IF V(x) THEN <<"t", "r", "u", "e">> ELSE <<"f", "a", "l", "s", "e">>)
    ELSE IF T(x) = "null" THEN <<"n", "u", "l", "l">>
    ELSE IF T(x) = "arr" THEN <<"[">> \o DumpItems(V(x), 1) \o <<"]">>
    ELSE <<"{">> \o DumpMembers(V(x), 1) \o <<"}">>

DumpItems(s, i) ==
    IF i > Len(s) THEN <<>>
    ELSE (IF i > 1 THEN <<",", SP>> ELSE <<>>)
         \o Dumps(s[i]) \o DumpItems(s, i + 1)

DumpMembers(s, i) ==
    IF i > Len(s) THEN <<>>
    ELSE (IF i > 1 THEN <<",", SP>> ELSE <<>>)
         \o <<Q>> \o s[i][1] \o <<Q, ":", SP>> \o Dumps(s[i][2])
         \o DumpMembers(s, i + 1)

---------------------------------------------------------------------------
(* json.loads(text): a recursive-descent parser.  A parse result is        *)
(* [ok, v, i]: whether a value was read, the value, and the index of the   *)
(* first character after it.                                               *)

PFail == [ok |-> FALSE, v |-> JNull, i |-> 0]
POk(x, j) == [ok |-> TRUE, v |-> x, i |-> j]

RECURSIVE SkipWs(_, _)
SkipWs(s, i) == IF i <= Len(s) /\ s[i] \in WsChars THEN SkipWs(s, i + 1) ELSE i

\* The index of the quote closing a string that opened before j (0: none).
\* A raw line break inside a string is an error.
RECURSIVE StrEnd(_, _)
StrEnd(s, j) ==
    IF j > Len(s) \/ s[j] \in {NL, CR} THEN 0
    ELSE IF s[j] = Q THEN j ELSE StrEnd(s, j + 1)

RECURSIVE NumEnd(_, _)
NumEnd(s, j) == IF j <= Len(s) /\ s[j] \in DigitChars THEN NumEnd(s, j + 1) ELSE j

RECURSIVE NumVal(_, _, _)
NumVal(s, a, b) ==
    IF a > b THEN 0 ELSE NumVal(s, a, b - 1) * 10 + DigitVal(s[b])

IsAt(s, i, w) == i + Len(w) - 1 <= Len(s) /\ SubSeq(s, i, i + Len(w) - 1) = w

ParseString(s, i) ==
    LET e == StrEnd(s, i + 1)
    IN  IF e = 0 THEN PFail ELSE POk(SubSeq(s, i + 1, e - 1), e + 1)

RECURSIVE ParseValue(_, _), ParseElements(_, _, _), ParseMembers(_, _, _)
ParseValue(s, i0) ==
    LET i == SkipWs(s, i0)
    IN  IF i > Len(s) THEN PFail
        ELSE IF s[i] = Q
        THEN LET r == ParseString(s, i)
             IN  IF r.ok THEN POk(JStr(r.v), r.i) ELSE PFail
        ELSE IF s[i] \in DigitChars
        THEN LET e == NumEnd(s, i)
             IN  IF s[i] = "0" /\ e > i + 1 THEN PFail
                 ELSE POk(JNum(NumVal(s, i, e - 1)), e)
        ELSE IF IsAt(s, i, <<"t", "r", "u", "e">>) THEN POk(JBool(TRUE), i + 4)
        ELSE IF IsAt(s, i, <<"f", "a", "l", "s", "e">>) THEN POk(JBool(FALSE), i + 5)
        ELSE IF IsAt(s, i, <<"n", "u", "l", "l">>) THEN POk(JNull, i + 4)
        ELSE IF s[i] = "["
        THEN LET j == SkipWs(s, i + 1)
             IN  IF j <= Len(s) /\ s[j] = "]" THEN POk(JArr(<<>>), j + 1)
                 ELSE ParseElements(s, j, <<>>)
        ELSE IF s[i] = "{"
        THEN LET j == SkipWs(s, i + 1)
             IN  IF j <= Len(s) /\ s[j] = "}" THEN POk(JObj(<<>>), j + 1)
                 ELSE ParseMembers(s, j, <<>>)
        ELSE PFail

ParseElements(s, i, acc) ==
    LET r == ParseValue(s, i)
    IN  IF ~r.ok THEN PFail
        ELSE LET j == SkipWs(s, r.i)
             IN  IF j > Len(s) THEN PFail
                 ELSE IF s[j] = "," THEN ParseElements(s, j + 1, Append(acc, r.v))
                 ELSE IF s[j] = "]" THEN POk(JArr(Append(acc, r.v)), j + 1)
                 ELSE PFail

ParseMembers(s, i0, acc) ==
    LET i == SkipWs(s, i0)
    IN  IF i > Len(s) \/ s[i] # Q THEN PFail
        ELSE LET k == ParseString(s, i)
             IN  IF ~k.ok THEN PFail
                 ELSE LET c == SkipWs(s, k.i)
                      IN  IF c > Len(s) \/ s[c] # ":" THEN PFail
                          ELSE LET r == ParseValue(s, c + 1)
                               IN  IF ~r.ok THEN PFail
                                   ELSE LET j == SkipWs(s, r.i)
                                            a == Append(acc, <<k.v, r.v>>)
                                        IN  IF j > Len(s) THEN PFail
                                            ELSE IF s[j] = ","
                                            THEN ParseMembers(s, j + 1, a)
                                            ELSE IF s[j] = "}"
                                            THEN POk(JObj(a), j + 1)
                                            ELSE PFail

\* json.loads(text): one value and nothing but whitespace after it, else
\* json.JSONDecodeError (a ValueError).
Loads(s) ==
    LET r == ParseValue(s, 1)
    IN  IF r.ok /\ SkipWs(s, r.i) = Len(s) + 1 THEN r ELSE PFail

---------------------------------------------------------------------------
(* The input of gcloudFormatter: what `gcloud logging read --format=json`  *)
(* prints, a JSON array pretty-printed with two spaces per level           *)
(* (json.dumps(indent=2): an empty dict or list is printed inline).        *)

WithComma(ls) == [ls EXCEPT ![Len(ls)] = @ \o <<",">>]
Prefixed(ls, p) == [ls EXCEPT ![1] = p \o @]

RECURSIVE PPLines(_, _), PPItems(_, _, _), PPMembers(_, _, _)
\* The lines of value x printed at indentation ind; the first line carries
\* no indentation (its caller prefixes it).
PPLines(x, ind) ==
    IF T(x) \notin {"arr", "obj"} \/ V(x) = <<>> THEN <<Dumps(x)>>
    ELSE IF T(x) = "arr"
    THEN << <<"[">> >> \o PPItems(V(x), 1, ind + 2) \o <<Spaces(ind) \o <<"]">>>>
    ELSE << <<"{">> >> \o PPMembers(V(x), 1, ind + 2) \o <<Spaces(ind) \o <<"}">>>>

PPItems(s, i, ind) ==
    IF i > Len(s) THEN <<>>
    ELSE LET ls == Prefixed(PPLines(s[i], ind), Spaces(ind))
         IN  (IF i < Len(s) THEN WithComma(ls) ELSE ls) \o PPItems(s, i + 1, ind)

PPMembers(s, i, ind) ==
    IF i > Len(s) THEN <<>>
    ELSE LET ls == Prefixed(PPLines(s[i][2], ind),
                            Spaces(ind) \o <<Q>> \o s[i][1] \o <<Q, ":", SP>>)
         IN  (IF i < Len(s) THEN WithComma(ls) ELSE ls) \o PPMembers(s, i + 1, ind)

\* The lines of the file, each ended by a line break, as `for line in f`
\* yields them.
GcloudArray(objs) ==
    LET ls == PPLines(JArr(objs), 0) IN [i \in 1..Len(ls) |-> ls[i] \o <<NL>>]

\* f.readlines(): the lines of a text, the line break kept; a last line
\* without a line break is a line too.
RECURSIVE ReadLines(_, _, _)
ReadLines(s, i, cur) ==
    IF i > Len(s) THEN (IF cur = <<>> THEN <<>> ELSE <<cur>>)
    ELSE IF s[i] = NL THEN <<Append(cur, NL)>> \o ReadLines(s, i + 1, <<>>)
    ELSE ReadLines(s, i + 1, Append(cur, s[i]))

\* readLog: json.load of a whole file.
readLog(lines) == Loads(Concat(lines))

---------------------------------------------------------------------------
(* writeOutput(data, encode, output): the text of the output file after    *)
(* the call (opened 'a+': appended to, never truncated).  The destination  *)
(* is taken to be writable.                                                *)

\* A variant: the file opened 'w' (truncated by every call).
writeOutputTruncating(out, data, encode) ==
    IF encode THEN Dumps(data) \o <<NL>> ELSE data

writeOutput(out, data, encode) ==
    IF encode THEN out \o Dumps(data) \o <<NL>> ELSE out \o data

---------------------------------------------------------------------------
(* gcloudFormatter(file, output): one step per line of the input.          *)

\* The branch the if/elif chain takes for a line.
LineClass(line) ==
    IF StartsWith(Strip(line), <<"[">>) THEN "array-open"
    ELSE IF StartsWith(line, <<SP, SP, "{">>) THEN "object-open"
    ELSE IF StartsWith(line, <<SP, SP, "}">>) /\ EndsWith(Strip(line), <<",">>)
    THEN "object-close-comma"
    ELSE IF StartsWith(line, <<SP, SP, "}">>) THEN "object-close-final"
    ELSE IF StartsWith(line, <<"]">>) THEN "array-close"
    ELSE IF Len(line) > 5 THEN "interior"
    ELSE "short"

FormatLine ==
    /\ op = "gcloudformatter" /\ pc = "run" /\ pos < Len(file)
    /\ LET line == file[pos + 1]
           c == LineClass(line)
       IN  CASE c \in {"object-open", "interior"} ->
                  /\ log' = log \o Strip(line)
                  /\ UNCHANGED <<output, count>>
             [] c = "object-close-comma" ->
                  /\ output' = writeOutput(output, log \o Strip(DropLast(line, 2)), FALSE)
                  /\ log' = <<NL>>
                  /\ count' = count + 1
             [] c = "object-close-final" ->
                  /\ output' = writeOutput(output, log \o Strip(DropLast(line, 1)), FALSE)
                  /\ log' = <<NL>>
                  /\ count' = count + 1
             [] OTHER -> UNCHANGED <<output, log, count>>
    /\ pos' = pos + 1
    /\ UNCHANGED <<op, pc, args, file, win, filterList>>

FormatReturn ==
    /\ op = "gcloudformatter" /\ pc = "run" /\ pos = Len(file)
    /\ pc' = "done"
    /\ UNCHANGED <<op, args, file, pos, output, log, count, win, filterList>>

\* The objects of the input arrays.
MaxArrayLen == 2
MaxObjects == 2

ArrayElements ==
    {JStr(<<"x">>), JArr(<<>>), JArr(<<JNum(1)>>), JObj(<< <<<<"c">>, JNum(7)>> >>)}

RECURSIVE SeqsUpTo(_, _)
SeqsUpTo(S, n) ==
    IF n = 0 THEN {<<>>}
    ELSE LET P == SeqsUpTo(S, n - 1)
         IN  P \cup {Append(p, x) : p \in {q \in P : Len(q) = n - 1}, x \in S}

FieldValues ==
    {JStr(<<"x">>), JNum(5), JBool(TRUE), JNull, JObj(<<>>),
     JObj(<< <<<<"c">>, JStr(<<"y">>)>> >>),
     JObj(<< <<<<"c">>, JArr(<<JNum(1)>>)>>, <<<<"d">>, JNum(2)>> >>)}
    \cup {JArr(s) : s \in SeqsUpTo(ArrayElements, MaxArrayLen)}

LogObjects ==
    {JObj(<< <<<<"a">>, v>> >>) : v \in FieldValues}
    \cup {JObj(<< <<<<"a">>, JStr(<<"x">>)>>, <<<<"b">>, JNum(5)>> >>)}

FormatterInputs ==
    {GcloudArray(objs) : objs \in SeqsUpTo(LogObjects, MaxObjects) \ {<<>>}}

InitFormatter ==
    /\ op = "gcloudformatter" /\ pc = "run"
    /\ args = [cont |-> TRUE]
    /\ file \in FormatterInputs
    /\ pos = 0 /\ output = <<>> /\ log = <<>> /\ count = 0 /\ win = <<>>
    /\ filterList = <<>>

NextFormatter == FormatLine \/ FormatReturn

SpecFormatter == InitFormatter /\ [][NextFormatter]_vars

---------------------------------------------------------------------------
(* continuePrompt(cont): with cont True it returns at once; otherwise it   *)
(* asks until the answer is one of the ten accepted texts.                 *)

YesAnswers == {"yes", "Yes", "Y", "y", "YES"}
\* The answers of the elif branch, which calls sys.exit().
ExitAnswers == {"no", "No", "N", "n", "No"}
\* The answers that end the while loop.
AcceptedAnswers == {"yes", "Yes", "Y", "y", "YES", "no", "No", "N", "n", "NO"}
Answers == AcceptedAnswers \cup {"maybe", ""}

\* The position after one round of the loop with this answer.
AfterAnswer(answer) ==
    IF answer \in YesAnswers THEN "run"
    ELSE IF answer \in ExitAnswers THEN "exited"
    ELSE IF answer \in AcceptedAnswers THEN "run"
    ELSE "prompt"

continuePrompt ==
    /\ pc = "prompt"
    /\ IF args.cont = TRUE THEN pc' = "run"
       ELSE \E answer \in Answers : pc' = AfterAnswer(answer)
    /\ UNCHANGED <<op, args, file, pos, output, log, count, win, filterList>>

---------------------------------------------------------------------------
(* filterLog(file, cont, output, filterVal, filterString).                 *)

\* parseFilters: the conditions, each the list f.split("=").
parseFilters(filter) ==
    LET fs == Split(filter, ",") IN [i \in 1..Len(fs) |-> Split(fs[i], "=")]

\* x[k] of Python for a text key k: the value, or the exception raised.
Subscript(x, k) ==
    IF T(x) = "obj"
    THEN (IF HasKey(x, k) THEN [st |-> "value", v |-> Get(x, k)]
          ELSE [st |-> "KeyError", v |-> JNull])
    ELSE [st |-> "TypeError", v |-> JNull]

\* x[k1][k2]...[kn], evaluated left to right.
RECURSIVE Descend(_, _, _)
Descend(x, fields, i) ==
    IF i > Len(fields) THEN [st |-> "value", v |-> x]
    ELSE LET r == Subscript(x, fields[i])
         IN  IF r.st = "value" THEN Descend(r.v, fields, i + 1) ELSE r

\* The branch of the if/elif chain on len(fields) that is taken: the number
\* of its position in the chain, 0 when no test holds.  The fifth and the
\* sixth test are len(fields) == 2 again.
Branch(n) ==
    IF n = 1 THEN 1
    ELSE IF n = 2 THEN 2
    ELSE IF n = 3 THEN 3
    ELSE IF n = 4 THEN 4
    ELSE IF n = 2 THEN 5
    ELSE IF n = 2 THEN 6
    ELSE 0

\* What the subscription expression of the taken branch evaluates to.  The
\* fourth branch is log[f0][f1[f2][f3]]: log[f0] is evaluated first, then
\* f1[f2] subscripts a str with a str, a TypeError.  st = "none": no branch.
Lookup(lg, fields) ==
    LET b == Branch(Len(fields))
    IN  IF b = 0 THEN [st |-> "none", v |-> JNull]
        ELSE IF b = 4
        THEN LET r == Subscript(lg, fields[1])
             IN  IF r.st = "value" THEN [st |-> "TypeError", v |-> JNull] ELSE r
        ELSE Descend(lg, SubSeq(fields, 1, b), 1)

\* resolved == value, value a str: only a str with the same text is equal.
PyEq(x, value) == T(x) = "str" /\ V(x) = value

InsertId == <<"i", "n", "s", "e", "r", "t", "I", "d">>

\* The loop over filterList for one record, from item i on: the output, the
\* counter, and whether an exception left the loop (and the function).
RECURSIVE EvalConds(_, _, _, _, _, _)
EvalConds(lg, fl, mode, i, out, cnt) ==
    IF i > Len(fl) THEN [raised |-> FALSE, out |-> out, cnt |-> cnt]
    ELSE LET fields == Split(fl[i][1], ".")
             value == Strip(fl[i][2])
             r == Lookup(lg, fields)
         IN  IF mode = "include"
             THEN IF r.st = "value"
                  THEN EvalConds(lg, fl, mode, i + 1,
                                 IF PyEq(r.v, value) THEN writeOutput(out, lg, TRUE)
                                 ELSE out, cnt)
                  ELSE IF r.st = "none" THEN EvalConds(lg, fl, mode, i + 1, out, cnt)
                  ELSE IF r.st = "KeyError" /\ Subscript(lg, InsertId).st = "value"
                  THEN EvalConds(lg, fl, mode, i + 1, out, cnt)
                  ELSE [raised |-> TRUE, out |-> out, cnt |-> cnt]
             ELSE IF r.st = "value"
                  THEN EvalConds(lg, fl, mode, i + 1, out,
                                 IF PyEq(r.v, value) THEN cnt ELSE cnt + 1)
                  ELSE IF r.st = "none" THEN EvalConds(lg, fl, mode, i + 1, out, cnt)
                  ELSE IF r.st = "KeyError"
                  THEN EvalConds(lg, fl, mode, i + 1, out, cnt + 1)
                  ELSE [raised |-> TRUE, out |-> out, cnt |-> cnt]

FilterStart ==
    /\ op = "filter" /\ pc = "start"
    /\ filterList' = parseFilters(args.filterVal)
    /\ pc' = "prompt"
    /\ UNCHANGED <<op, args, file, pos, output, log, count, win>>

\* One round of `for line in f`.
FilterLine ==
    /\ op = "filter" /\ pc = "run" /\ pos < Len(file)
    /\ LET r == Loads(file[pos + 1])
           e == EvalConds(r.v, filterList, args.filterString, 1, output, 0)
       IN  IF ~r.ok THEN pc' = "aborted" /\ UNCHANGED <<output, pos>>
           ELSE IF e.raised THEN pc' = "aborted" /\ output' = e.out /\ UNCHANGED pos
           ELSE /\ output' = IF args.filterString = "exclude" /\ e.cnt = Len(filterList)
                             THEN writeOutput(e.out, r.v, TRUE) ELSE e.out
                /\ pos' = pos + 1
                /\ UNCHANGED pc
    /\ UNCHANGED <<op, args, file, log, count, win, filterList>>

FilterReturn ==
    /\ op = "filter" /\ pc = "run" /\ pos = Len(file)
    /\ pc' = "done"
    /\ UNCHANGED <<op, args, file, pos, output, log, count, win, filterList>>

\* The deepest path the source has a branch for.
MaxDepth == 6
MaxFilterLines == 2
MaxConditions == 2

KeyA == <<"a">>
KeyB == <<"b">>

RECURSIVE Nest(_, _)
\* {"a": {"a": ... leaf}} with d keys.
Nest(leaf, d) == IF d = 0 THEN leaf ELSE JObj(<< <<KeyA, Nest(leaf, d - 1)>> >>)

WithInsertId(o) == JObj(V(o) \o << <<InsertId, JStr(<<"i">>)>> >>)

\* Records with an insertId, as the logs of GCP have, and two without.
FilterRecords ==
    LET chains == {Nest(JStr(<<"x">>), d) : d \in 1..MaxDepth}
                  \cup {Nest(JNum(5), 1),
                        JObj(<< <<KeyA, JStr(<<"x">>)>>, <<KeyB, JStr(<<"x">>)>> >>)}
    IN  {WithInsertId(o) : o \in chains}
        \cup {Nest(JStr(<<"x">>), 1), Nest(JStr(<<"x">>), 2)}

FilterFiles ==
    {[i \in 1..Len(rs) |-> Dumps(rs[i]) \o <<NL>>] :
        rs \in SeqsUpTo(FilterRecords, MaxFilterLines) \ {<<>>}}

RECURSIVE Path(_, _)
\* k.k. ... .k with n segments.
Path(k, n) == IF n = 1 THEN k ELSE k \o <<".">> \o Path(k, n - 1)

FilterPaths ==
    {Path(KeyA, n) : n \in 1..(MaxDepth + 1)}
    \cup {KeyB, KeyA \o <<".">> \o KeyB, KeyB \o <<".">> \o Path(KeyA, 3)}

FilterConditions ==
    {p \o <<"=", "x">> : p \in FilterPaths} \cup {KeyA \o <<"=", "5">>}

FilterStrings ==
    {Join(cs, ",") : cs \in SeqsUpTo(FilterConditions, MaxConditions) \ {<<>>}}

InitFilter ==
    /\ op = "filter" /\ pc = "start"
    /\ args \in [cont : BOOLEAN, filterVal : FilterStrings,
                 filterString : {"include", "exclude"}]
    /\ file \in FilterFiles
    /\ pos = 0 /\ output = <<>> /\ log = <<>> /\ count = 0 /\ win = <<>>
    /\ filterList = <<>>

NextFilter == FilterStart \/ continuePrompt \/ FilterLine \/ FilterReturn

SpecFilter == InitFilter /\ [][NextFilter]_vars

---------------------------------------------------------------------------
(* Date and time.  A datetime is [ord, sec, us]: the day (its place in     *)
(* Dates), the second of the day and the microsecond; datetimes compare    *)
(* in that order, as Python's do.  Only the days of Dates are modelled:    *)
(* the inputs name no other day.                                           *)

Dates ==
    << <<"2", "0", "1", "9", "-", "0", "7", "-", "2", "1">>,
       <<"2", "0", "1", "9", "-", "0", "7", "-", "2", "2">>,
       <<"2", "0", "1", "9", "-", "0", "7", "-", "2", "3">> >>

DateTime(o, s, u) == [ord |-> o, sec |-> s, us |-> u]

AllDigits(s) == \A i \in 1..Len(s) : s[i] \in DigitChars

\* datetime.strptime(s, '%Y-%m-%d<sep>%H:%M:%S') for two-digit fields: the
\* datetime, or ok = FALSE for a ValueError.
strptime(s, sep) ==
    LET shaped == /\ Len(s) = 19
                  /\ \E d \in 1..Len(Dates) : SubSeq(s, 1, 10) = Dates[d]
                  /\ s[11] = sep /\ s[14] = ":" /\ s[17] = ":"
                  /\ AllDigits(SubSeq(s, 12, 13) \o SubSeq(s, 15, 16) \o SubSeq(s, 18, 19))
        hh == NumVal(s, 12, 13)
        mm == NumVal(s, 15, 16)
        ss == NumVal(s, 18, 19)
    IN  IF shaped /\ hh < 24 /\ mm < 60 /\ ss < 60
        THEN [ok |-> TRUE,
              dt |-> DateTime(CHOOSE d \in 1..Len(Dates) : SubSeq(s, 1, 10) = Dates[d],
                              hh * 3600 + mm * 60 + ss, 0)]
        ELSE [ok |-> FALSE, dt |-> DateTime(0, 0, 0)]

\* convertTimeString(s); ok = FALSE stands for its sys.exit().
convertTimeString(s) == strptime(s, SP)

\* A variant: size/2 as integer division (the `/` of Python 2).
HalfSizeSecondsFloor(size) == (size \div 2) * 60

\* timedelta(minutes=size/2) in seconds: size is an int (argparse type=int)
\* and size/2 is true division, so the delta is size * 60 / 2 seconds.
HalfSizeSeconds(size) == (size * 60) \div 2

\* datetime + timedelta(seconds=d), d of either sign.
PlusSeconds(dt, d) ==
    LET total == dt.sec + d
    IN  DateTime(dt.ord + (total \div 86400), total % 86400, dt.us)

getTimeDeltas(dateTimeVal, size) ==
    <<PlusSeconds(dateTimeVal, 0 - HalfSizeSeconds(size)),
      PlusSeconds(dateTimeVal, HalfSizeSeconds(size))>>

\* a <= b of two datetimes.
DtLe(a, b) ==
    \/ a.ord < b.ord
    \/ a.ord = b.ord /\ a.sec < b.sec
    \/ a.ord = b.ord /\ a.sec = b.sec /\ a.us <= b.us

\* A variant: the window open at its end (tmp < endDateTime).
InWindowHalfOpen(tmp, w) == DtLe(w[1], tmp) /\ ~DtLe(w[2], tmp)

\* tmp >= startDateTime and tmp <= endDateTime
InWindow(tmp, w) == DtLe(w[1], tmp) /\ DtLe(tmp, w[2])

---------------------------------------------------------------------------
(* timeslice(file, cont, output, size, dateTimeString) and                 *)
(* timeframe(file, cont, output, timeframe).                               *)

TimestampKey == <<"t", "i", "m", "e", "s", "t", "a", "m", "p">>

TimesliceStart ==
    /\ op = "timeslice" /\ pc = "start"
    /\ LET c == convertTimeString(args.dateTimeString)
       IN  IF c.ok THEN win' = getTimeDeltas(c.dt, args.size) /\ pc' = "prompt"
           ELSE pc' = "exited" /\ UNCHANGED win
    /\ UNCHANGED <<op, args, file, pos, output, log, count, filterList>>

\* tmp[1] of a string without ">" is an IndexError, which nothing catches.
TimeframeStart ==
    /\ op = "timeframe" /\ pc = "start"
    /\ LET tmp == Split(args.timeframe, ">")
           s == convertTimeString(Strip(tmp[1]))
           e == convertTimeString(Strip(tmp[2]))
       IN  IF ~s.ok THEN pc' = "exited" /\ UNCHANGED win
           ELSE IF Len(tmp) < 2 THEN pc' = "aborted" /\ UNCHANGED win
           ELSE IF ~e.ok THEN pc' = "exited" /\ UNCHANGED win
           ELSE win' = <<s.dt, e.dt>> /\ pc' = "prompt"
    /\ UNCHANGED <<op, args, file, pos, output, log, count, filterList>>

\* The body of `for line in f` of both functions: what one line does to the
\* output, or raised = TRUE when json.loads, log['timestamp'], the slice or
\* strptime raises (nothing catches it).
ExtractOne(line, w, out) ==
    LET r == Loads(line)
        ts == Subscript(r.v, TimestampKey)
        tmp == strptime(Slice(V(ts.v), 0, 19), "T")
    IN  IF ~r.ok \/ ts.st # "value" \/ T(ts.v) # "str" \/ ~tmp.ok
        THEN [raised |-> TRUE, out |-> out]
        ELSE [raised |-> FALSE,
              out |-> IF InWindow(tmp.dt, w) THEN writeOutput(out, r.v, TRUE) ELSE out]

ExtractLine ==
    /\ op \in {"timeslice", "timeframe"} /\ pc = "run" /\ pos < Len(file)
    /\ LET e == ExtractOne(file[pos + 1], win, output)
       IN  IF e.raised THEN pc' = "aborted" /\ UNCHANGED <<output, pos>>
           ELSE output' = e.out /\ pos' = pos + 1 /\ UNCHANGED pc
    /\ UNCHANGED <<op, args, file, log, count, win, filterList>>

ExtractReturn ==
    /\ op \in {"timeslice", "timeframe"} /\ pc = "run" /\ pos = Len(file)
    /\ pc' = "done"
    /\ UNCHANGED <<op, args, file, pos, output, log, count, win, filterList>>

MaxSize == 3
MaxTimeLines == 2

Day22 == Dates[2]
T200400 == <<"2", "0", ":", "0", "4", ":", "0", "0">>
T200401 == <<"2", "0", ":", "0", "4", ":", "0", "1">>
T200431 == <<"2", "0", ":", "0", "4", ":", "3", "1">>
T200501 == <<"2", "0", ":", "0", "5", ":", "0", "1">>
T200502 == <<"2", "0", ":", "0", "5", ":", "0", "2">>
T000010 == <<"0", "0", ":", "0", "0", ":", "1", "0">>
Frac000000 == <<".", "0", "0", "0", "0", "0", "0">>
Frac000001 == <<".", "0", "0", "0", "0", "0", "1">>
Frac999999 == <<".", "9", "9", "9", "9", "9", "9">>
Frac212077 == <<".", "2", "1", "2", "0", "7", "7">>

\* Timestamps as the logs carry them: date, "T", time, fraction, "Z".
Stamp(t, frac) == Day22 \o <<"T">> \o t \o frac \o <<"Z">>

Timestamps ==
    {Stamp(T200400, Frac000000), Stamp(T200400, Frac999999),
     Stamp(T200401, Frac000000), Stamp(T200431, Frac212077),
     Stamp(T200501, Frac000000), Stamp(T200501, Frac000001),
     Stamp(T200502, Frac000000)}

Garbage == <<"g", "a", "r", "b", "a", "g", "e">>

\* The lines of an input file: records with a timestamp, a record with an
\* unparseable timestamp, a record without one, and a malformed line.
TimeLines ==
    {Dumps(JObj(<< <<TimestampKey, JStr(ts)>> >>)) \o <<NL>> :
        ts \in Timestamps \cup {Garbage}}
    \cup {Dumps(JObj(<< <<KeyA, JStr(<<"x">>)>> >>)) \o <<NL>>,
          <<"{", Q, "a", Q, NL>>}

TimeFiles == SeqsUpTo(TimeLines, MaxTimeLines) \ {<<>>}

CenterStrings ==
    {Day22 \o <<SP>> \o T200431, Day22 \o <<SP>> \o T000010, Day22}

TimeframeStrings ==
    {Day22 \o <<SP>> \o T200401 \o <<SP, ">", SP>> \o Day22 \o <<SP>> \o T200501,
     Day22 \o <<SP>> \o T200401,
     Day22 \o <<SP>> \o T200401 \o <<SP, ">", SP>> \o Garbage,
     Garbage \o <<SP, ">", SP>> \o Day22 \o <<SP>> \o T200501}

InitTime ==
    /\ \/ /\ op = "timeslice"
          /\ args \in [cont : BOOLEAN, size : 0..MaxSize,
                       dateTimeString : CenterStrings]
       \/ /\ op = "timeframe"
          /\ args \in [cont : BOOLEAN, timeframe : TimeframeStrings]
    /\ pc = "start"
    /\ file \in TimeFiles
    /\ pos = 0 /\ output = <<>> /\ log = <<>> /\ count = 0 /\ win = <<>>
    /\ filterList = <<>>

NextTime ==
    TimesliceStart \/ TimeframeStart \/ continuePrompt \/ ExtractLine \/ ExtractReturn

SpecTime == InitTime /\ [][NextTime]_vars

---------------------------------------------------------------------------
(* mergeLogs(files, cont, output, recurse).  The listing getFileListing    *)
(* returns is the input: each file with whether open() succeeds and its    *)
(* content.                                                                *)

\* i.read() of a file opened 'r' (text mode, newline=None): universal
\* newlines, "\r\n" and "\r" are read as "\n".
RECURSIVE read(_)
read(content) ==
    IF content = <<>> THEN <<>>
    ELSE IF Head(content) = CR
    THEN <<NL>> \o read(IF Len(content) > 1 /\ content[2] = NL
                        THEN Tail(Tail(content)) ELSE Tail(content))
    ELSE <<Head(content)>> \o read(Tail(content))

MergeStart ==
    /\ op = "merge" /\ pc = "start"
    /\ pc' = IF Len(file) = 0 THEN "aborted" ELSE "prompt"
    /\ UNCHANGED <<op, args, file, pos, output, log, count, win, filterList>>

\* One round of `for item in fileList`.
MergeFile ==
    /\ op = "merge" /\ pc = "run" /\ pos < Len(file)
    /\ LET item == file[pos + 1]
       IN  IF item.openable
           THEN /\ output' = writeOutput(output, read(item.content), FALSE)
                /\ pos' = pos + 1
                /\ UNCHANGED pc
           ELSE pc' = "aborted" /\ UNCHANGED <<output, pos>>
    /\ UNCHANGED <<op, args, file, log, count, win, filterList>>

MergeReturn ==
    /\ op = "merge" /\ pc = "run" /\ pos = Len(file)
    /\ pc' = "done"
    /\ UNCHANGED <<op, args, file, pos, output, log, count, win, filterList>>

MaxFiles == 3

FileContents ==
    {<<>>, <<"a", NL>>, <<"b", NL, "c", NL>>, <<"a", CR, NL>>}

MergeFiles ==
    {[openable |-> TRUE, content |-> c] : c \in FileContents}
    \cup {[openable |-> FALSE, content |-> <<>>]}

\* What the output file holds before the run.
ExistingOutputs == {<<>>, <<"o", NL>>}

InitMerge ==
    /\ op = "merge" /\ pc = "start"
    /\ args \in [cont : BOOLEAN, recurse : BOOLEAN, existing : ExistingOutputs]
    /\ file \in SeqsUpTo(MergeFiles, MaxFiles)
    /\ output = args.existing
    /\ pos = 0 /\ log = <<>> /\ count = 0 /\ win = <<>> /\ filterList = <<>>

NextMerge == MergeStart \/ continuePrompt \/ MergeFile \/ MergeReturn

SpecMerge == InitMerge /\ [][NextMerge]_vars

---------------------------------------------------------------------------
(* writeOutput called many times against one destination, as the loops of  *)
(* the tool and test_write_Output_No_Encoding do: `file` holds the calls   *)
(* to come, each the data (a str for a raw write, a dict for an encoded    *)
(* one) and the encode flag.                                               *)

SinkWrite ==
    /\ op = "write" /\ pc = "run" /\ pos < Len(file)
    /\ LET c == file[pos + 1]
       IN  output' = writeOutput(output, IF c.encode THEN c.data ELSE V(c.data),
                                 c.encode)
    /\ pos' = pos + 1
    /\ UNCHANGED <<op, pc, args, file, log, count, win, filterList>>

SinkReturn ==
    /\ op = "write" /\ pc = "run" /\ pos = Len(file)
    /\ pc' = "done"
    /\ UNCHANGED <<op, args, file, pos, output, log, count, win, filterList>>

MaxWrites == 3

\* Raw fragments (lines of a file, a fragment without line break, the empty
\* text) and records.
SinkFragments == {<<>>, <<"a", NL>>, <<"b">>, <<"{", "}", NL>>}
SinkRecords ==
    {JObj(<< <<KeyA, JStr(<<"x">>)>> >>),
     JObj(<< <<KeyA, JArr(<<JNum(1), JNull>>)>>, <<KeyB, JObj(<<>>)>> >>)}

SinkCalls ==
    {[data |-> JStr(d), encode |-> FALSE] : d \in SinkFragments}
    \cup {[data |-> r, encode |-> TRUE] : r \in SinkRecords}

InitSink ==
    /\ op = "write" /\ pc = "run"
    /\ args \in [cont : {TRUE}, existing : ExistingOutputs]
    /\ file \in SeqsUpTo(SinkCalls, MaxWrites)
    /\ output = args.existing
    /\ pos = 0 /\ log = <<>> /\ count = 0 /\ win = <<>> /\ filterList = <<>>

NextSink == SinkWrite \/ SinkReturn

SpecSink == InitSink /\ [][NextSink]_vars

---------------------------------------------------------------------------
(* gcloudFormatter on files that are not one well-formed array: the loop   *)
(* reads whatever lines the file has.  The files here are arrays as gcloud *)
(* prints them, two of them one after the other (output of two runs in one *)
(* file), an array with the close line of an object missing, and an array  *)
(* cut after some line.                                                    *)

MaxStreamObjects == 2

StreamObjects ==
    {JObj(<< <<KeyA, JStr(<<"x">>)>> >>),
     JObj(<< <<KeyA, JNum(5)>>, <<KeyB, JStr(<<"y">>)>> >>),
     JObj(<< <<KeyB, JArr(<<JNum(1)>>)>> >>)}

StreamArrays ==
    {GcloudArray(objs) : objs \in SeqsUpTo(StreamObjects, MaxStreamObjects) \ {<<>>}}

\* The lines ls without line i.
WithoutLine(ls, i) == SubSeq(ls, 1, i - 1) \o SubSeq(ls, i + 1, Len(ls))

\* The lines of a where an object ends.
CloseLines(a) ==
    {k \in 1..Len(a) :
        LineClass(a[k]) \in {"object-close-comma", "object-close-final"}}

StreamInputs ==
    StreamArrays
    \cup {a \o b : a \in StreamArrays, b \in StreamArrays}
    \cup UNION {{WithoutLine(a, i) : i \in CloseLines(a)} : a \in StreamArrays}
    \cup UNION {{SubSeq(a, 1, n) : n \in 1..(Len(a) - 1)} : a \in StreamArrays}

InitStream ==
    /\ op = "gcloudformatter" /\ pc = "run"
    /\ args = [cont |-> TRUE]
    /\ file \in StreamInputs
    /\ pos = 0 /\ output = <<>> /\ log = <<>> /\ count = 0 /\ win = <<>>
    /\ filterList = <<>>

SpecStream == InitStream /\ [][NextFormatter]_vars

---------------------------------------------------------------------------
(* Properties.                                                             *)

\* The text writeOutput(record, True, output) appends for a line's record.
RecordText(line) == Dumps(Loads(line).v) \o <<NL>>

RECURSIVE Repeat(_, _)
Repeat(s, n) == IF n = 0 THEN <<>> ELSE s \o Repeat(s, n - 1)

\* The objects of the array the formatter was given.
InputObjects == V(readLog(file).v)

\* C1: when gcloudFormatter has returned, the output has as many lines as
\* the input array has objects, and line i is a JSON object on one line
\* that is equal as a value to the i-th object of the array.
C1_RoundTrip ==
    (op = "gcloudformatter" /\ pc = "done") =>
        LET ls == ReadLines(output, 1, <<>>)
        IN  /\ Len(ls) = Len(InputObjects)
            /\ \A i \in 1..Len(ls) :
                  LET r == Loads(ls[i])
                  IN  r.ok /\ T(r.v) = "obj" /\ JsonEq(r.v, InputObjects[i])

\* The conditions of the run as (fields, value) pairs.
Conditions ==
    LET fl == parseFilters(args.filterVal)
    IN  [i \in 1..Len(fl) |->
            [fields |-> Split(fl[i][1], "."), value |-> Strip(fl[i][2])]]

\* A condition's path resolves inside the record, by mapping descent, to a
\* value equal to the expected one.
Matches(lg, c) ==
    LET r == Descend(lg, c.fields, 1) IN r.st = "value" /\ PyEq(r.v, c.value)

MatchCount(lg) == Cardinality({i \in 1..Len(Conditions) : Matches(lg, Conditions[i])})

\* Each record of the file, in order, once per matching condition.
RECURSIVE IncludeExpected(_)
IncludeExpected(i) ==
    IF i > Len(file) THEN <<>>
    ELSE Repeat(RecordText(file[i]), MatchCount(Loads(file[i]).v))
         \o IncludeExpected(i + 1)

\* C2: in include mode the run is not cut short, and when it has returned
\* the output holds each record, in input order, once per condition that
\* matches it (k times in a row for k matching conditions, not at all for
\* none).
C2_IncludeOncePerMatch ==
    (op = "filter" /\ args.filterString = "include") =>
        /\ pc # "aborted"
        /\ pc = "done" => output = IncludeExpected(1)

\* Every path either resolves in every record by mapping descent or fails
\* there on a key that is missing from a mapping.
OnlyMissingKeys ==
    \A i \in 1..Len(file) : \A j \in 1..Len(Conditions) :
        Descend(Loads(file[i]).v, Conditions[j].fields, 1).st \in {"value", "KeyError"}

\* Each record of the file, in order, once if no condition matches it.
RECURSIVE ExcludeExpected(_)
ExcludeExpected(i) ==
    IF i > Len(file) THEN <<>>
    ELSE (IF MatchCount(Loads(file[i]).v) = 0 THEN RecordText(file[i]) ELSE <<>>)
         \o ExcludeExpected(i + 1)

DepthsUpTo(n) == \A i \in 1..Len(Conditions) : Len(Conditions[i].fields) <= n

\* C3: in exclude mode with paths of depth 1 to 6 (each resolving, or
\* failing on a missing key) the run is not cut short, and when it has
\* returned the output holds exactly the records that no condition matches
\* (resolution failed or the value differs, for every condition), each once.
C3_ExcludeUnanimous ==
    (op = "filter" /\ args.filterString = "exclude" /\ DepthsUpTo(MaxDepth)
        /\ OnlyMissingKeys) =>
        /\ pc # "aborted"
        /\ pc = "done" => output = ExcludeExpected(1)

\* Every condition matches every record of the file.
AllMatch ==
    \A i \in 1..Len(file) : \A j \in 1..Len(Conditions) :
        Matches(Loads(file[i]).v, Conditions[j])

RECURSIVE AllRecords(_, _)
\* Each record of the file n times.
AllRecords(i, n) ==
    IF i > Len(file) THEN <<>>
    ELSE Repeat(RecordText(file[i]), n) \o AllRecords(i + 1, n)

\* C4: when every path has 1 to 6 segments and resolves in every record to
\* the expected value, the run is not cut short, include mode forwards
\* every record for every condition and exclude mode forwards none.
C4_DepthOneToSix ==
    (op = "filter" /\ DepthsUpTo(MaxDepth) /\ AllMatch) =>
        /\ pc # "aborted"
        /\ pc = "done" =>
              output = IF args.filterString = "include"
                       THEN AllRecords(1, Len(Conditions)) ELSE <<>>

\* str(x) of a scalar.
StrForm(x) ==
    IF T(x) = "str" THEN V(x)
    ELSE IF T(x) = "num" THEN Digits(V(x))
    ELSE IF T(x) = "bool"
    THEN (IF V(x) THEN <<"T", "r", "u", "e">> ELSE <<"F", "a", "l", "s", "e">>)
    ELSE <<"N", "o", "n", "e">>

\* Every condition resolves in every record to a scalar whose string form
\* is the expected text.
AllMatchByStrForm ==
    \A i \in 1..Len(file) : \A j \in 1..Len(Conditions) :
        LET r == Descend(Loads(file[i]).v, Conditions[j].fields, 1)
        IN  /\ r.st = "value" /\ T(r.v) \in {"str", "num", "bool", "null"}
            /\ StrForm(r.v) = Conditions[j].value

\* C5: comparison is by string form: when every path (of depth 1 to 3)
\* resolves in every record to a value whose string form is the expected
\* text, include mode forwards every record for every condition and
\* exclude mode forwards none.
C5_StringForm ==
    (op = "filter" /\ DepthsUpTo(3) /\ AllMatchByStrForm /\ pc = "done") =>
        output = IF args.filterString = "include"
                 THEN AllRecords(1, Len(Conditions)) ELSE <<>>

\* C6: in include mode a condition whose path fails on a missing key is
\* skipped: the run is not cut short, and the remaining conditions and the
\* later records are still evaluated, so that at the end the output holds
\* each record once per matching condition, whether or not the records
\* have an insertId.
C6_MissingKeySkipped ==
    (op = "filter" /\ args.filterString = "include" /\ DepthsUpTo(3)
        /\ OnlyMissingKeys) =>
        /\ pc # "aborted"
        /\ pc = "done" => output = IncludeExpected(1)

\* The datetime a timestamp text names, its fraction of a second included.
FullTime(ts) ==
    LET t == strptime(SubSeq(ts, 1, 19), "T").dt
    IN  IF Len(ts) >= 26 /\ ts[20] = "." THEN [t EXCEPT !.us = NumVal(ts, 21, 26)]
        ELSE t

\* The timestamp text of a line that holds a record with one.
StampOf(line) == V(Get(Loads(line).v, TimestampKey))

\* A line is a record whose timestamp is present and parseable.
GoodLine(line) ==
    LET r == Loads(line)
    IN  /\ r.ok /\ T(r.v) = "obj" /\ HasKey(r.v, TimestampKey)
        /\ T(Get(r.v, TimestampKey)) = "str"
        /\ strptime(Slice(StampOf(line), 0, 19), "T").ok

WholeSecond(dt) == [dt EXCEPT !.us = 0]

\* start <= t <= end with the timestamp cut to whole seconds.
InWindowBySecond(line) ==
    /\ DtLe(win[1], WholeSecond(FullTime(StampOf(line))))
    /\ DtLe(WholeSecond(FullTime(StampOf(line))), win[2])

RECURSIVE WindowExpected(_, _)
\* The records among lines i..n that are good and inside the window.
WindowExpected(i, n) ==
    IF i > n THEN <<>>
    ELSE (IF GoodLine(file[i]) /\ InWindowBySecond(file[i])
          THEN RecordText(file[i]) ELSE <<>>)
         \o WindowExpected(i + 1, n)

Extracting == op \in {"timeslice", "timeframe"} /\ win # <<>>

\* C7: a malformed line or a record without a parseable timestamp is
\* skipped by timeslice and timeframe: the run is not cut short, and when
\* it has returned the output holds every record of the input that lies
\* inside the window.
C7_BadRecordSkipped ==
    Extracting =>
        /\ pc # "aborted"
        /\ pc = "done" => output = WindowExpected(1, Len(file))

\* dt moved by k microseconds, k = 1 or -1.
PlusMicro(dt, k) ==
    LET u == dt.us + k
    IN  [PlusSeconds(dt, u \div 1000000) EXCEPT !.us = u % 1000000]

RECURSIVE Selected(_, _)
\* The records of lines i..pos that w selects.
Selected(w, i) ==
    IF i > pos THEN <<>>
    ELSE (IF w[i] THEN RecordText(file[i]) ELSE <<>>) \o Selected(w, i + 1)

\* C8 as stated: of the records read so far, those stamped exactly start
\* or exactly end are in the output, and those stamped one second or one
\* microsecond before start or after end are not.
C8_BoundaryToTheMicrosecond ==
    Extracting =>
        \E w \in [1..pos -> BOOLEAN] :
            /\ output = Selected(w, 1)
            /\ \A i \in 1..pos :
                  LET t == FullTime(StampOf(file[i]))
                  IN  /\ t \in {win[1], win[2]} => w[i]
                      /\ t \in {PlusSeconds(win[1], 0 - 1), PlusMicro(win[1], 0 - 1),
                                PlusSeconds(win[2], 1), PlusMicro(win[2], 1)} => ~w[i]

\* C8 amended: the window is closed and compared in whole seconds: the
\* output holds, in order, exactly the records read so far whose timestamp,
\* cut to its first 19 characters, is at or after start and at or before
\* end.  A record stamped exactly start or end is written, one stamped a
\* second (or a microsecond) before start or a second after end is not, and
\* one stamped less than a second after end is written.
C8_BoundaryBySecond ==
    Extracting => output = WindowExpected(1, pos)

\* A run that read a record stamped exactly end and then one stamped a
\* microsecond after end, and wrote both.
C8_Witness ==
    /\ Extracting /\ pc = "done" /\ Len(file) = 2
    /\ GoodLine(file[1]) /\ GoodLine(file[2])
    /\ FullTime(StampOf(file[1])) = win[2]
    /\ FullTime(StampOf(file[2])) = PlusMicro(win[2], 1)
    /\ output = RecordText(file[1]) \o RecordText(file[2])

\* Seconds since the first day of Dates.
SecondsOf(dt) == dt.ord * 86400 + dt.sec

WellFormed(dt) == dt.sec \in 0..86399 /\ dt.us \in 0..999999

\* C9: the window of timeslice is centred: end - start is size minutes, the
\* centre is the midpoint, start <= end; and for 2019-07-22 20:04:31 with
\* size 1 it is 20:04:01 to 20:05:01 of that day.
C9_CenteredWindow ==
    (op = "timeslice" /\ win # <<>>) =>
        LET c == convertTimeString(args.dateTimeString).dt
        IN  /\ WellFormed(win[1]) /\ WellFormed(win[2])
            /\ SecondsOf(win[2]) - SecondsOf(win[1]) = args.size * 60
            /\ SecondsOf(win[1]) + SecondsOf(win[2]) = 2 * SecondsOf(c)
            /\ win[1].us = c.us /\ win[2].us = c.us
            /\ DtLe(win[1], win[2])
            /\ (args.dateTimeString = Day22 \o <<SP>> \o T200431 /\ args.size = 1) =>
                  win = <<convertTimeString(Day22 \o <<SP>> \o T200401).dt,
                          convertTimeString(Day22 \o <<SP>> \o T200501).dt>>

\* The scenario of C9: size 1 around 2019-07-22 20:04:31.
C9_Witness ==
    /\ op = "timeslice" /\ win # <<>>
    /\ args.dateTimeString = Day22 \o <<SP>> \o T200431 /\ args.size = 1
    /\ win[1].sec = 20 * 3600 + 4 * 60 + 1

RECURSIVE Contents(_)
\* The contents of files i.. of the listing, one after the other.
Contents(i) ==
    IF i > Len(file) THEN <<>> ELSE file[i].content \o Contents(i + 1)

\* C10: for an empty listing mergeLogs fails and leaves the output as it
\* was; for a listing of files that can all be opened, when it has returned
\* the output is what it was followed by the content of each file, verbatim
\* and in listing order.
C10_MergeVerbatim ==
    op = "merge" =>
        /\ Len(file) = 0 => (pc \in {"start", "aborted"} /\ output = args.existing)
        /\ (pc = "done" /\ \A i \in 1..Len(file) : file[i].openable) =>
              output = args.existing \o Contents(1)

\* The text one call is to add: the fragment as it is, or the record as
\* JSON on one line and a line break.
CallText(c) == IF c.encode THEN Dumps(c.data) \o <<NL>> ELSE V(c.data)

RECURSIVE CallTexts(_, _)
\* The texts of calls i..n in call order.
CallTexts(i, n) == IF i > n THEN <<>> ELSE CallText(file[i]) \o CallTexts(i + 1, n)

\* C11: after any number of writeOutput calls the destination holds what it
\* held before the first call, then what each call wrote, in call order: a
\* raw fragment as it is, a record as JSON on one line (it parses back to
\* the record and holds no line break) and a line break.  Nothing already
\* there is cut, removed or changed.
C11_AppendOnly ==
    op = "write" =>
        /\ output = args.existing \o CallTexts(1, pos)
        /\ \A i \in 1..pos :
              file[i].encode =>
                  LET t == Dumps(file[i].data)
                  IN  /\ \A k \in 1..Len(t) : t[k] # NL
                      /\ Loads(t).ok /\ JsonEq(Loads(t).v, file[i].data)

\* Three calls, raw and encoded, were made against a destination that was
\* not empty.
C11_Witness ==
    /\ op = "write" /\ pc = "done" /\ pos = 3
    /\ args.existing # <<>>
    /\ file[1].encode /\ ~file[2].encode /\ V(file[2].data) # <<>> /\ file[3].encode

RECURSIVE SelectedBy(_, _)
\* The records of the file from line i on, in order, that a single
\* condition selects: in include mode those it matches, in exclude mode
\* those it does not match (the value differs or the path does not resolve).
SelectedBy(mode, i) ==
    IF i > Len(file) THEN <<>>
    ELSE LET m == Matches(Loads(file[i]).v, Conditions[1])
         IN  (IF m = (mode = "include") THEN RecordText(file[i]) ELSE <<>>)
             \o SelectedBy(mode, i + 1)

\* C12: with a single condition whose path has 1 to 6 segments, the run is
\* not cut short, include mode writes exactly the records the condition
\* matches and exclude mode exactly the other records, so that the two
\* outputs for one file are disjoint and together hold every record once.
C12_Complementarity ==
    (op = "filter" /\ Len(Conditions) = 1 /\ DepthsUpTo(MaxDepth)) =>
        /\ pc # "aborted"
        /\ pc = "done" => output = SelectedBy(args.filterString, 1)

\* C13: when gcloudFormatter has returned after writing at least one
\* record, the output ends with a line break (the last record is ended by
\* one, as every record before it), so a record appended later starts a
\* line of its own.
C13_NewlineTerminated ==
    (op = "gcloudformatter" /\ pc = "done" /\ count >= 1) =>
        Len(output) > 0 /\ output[Len(output)] = NL

\* A line whose trimmed form starts with "]" is among the lines read.
EndMarkerRead ==
    \E i \in 1..pos : StartsWith(Strip(file[i]), <<"]">>)

\* C14: once gcloudFormatter has read a line whose trimmed form starts with
\* "]", no step of it writes a record or adds a line to the buffer,
\* whatever lines follow.
C14_EndMarkerTerminates ==
    [][(op = "gcloudformatter" /\ EndMarkerRead) =>
           (output' = output /\ log' = log)]_vars

\* The first line after line i where an object opens or ends or the array
\* ends; 0 if there is none.
BoundaryAfter(i) ==
    LET js == {j \in (i + 1)..Len(file) :
                 LineClass(file[j]) \in {"object-open", "object-close-comma",
                                         "object-close-final", "array-close"}}
    IN  IF js = {} THEN 0 ELSE CHOOSE j \in js : \A k \in js : j <= k

\* The object-open line i is followed by the close line of its object.
IsClosed(i) ==
    /\ BoundaryAfter(i) # 0
    /\ LineClass(file[BoundaryAfter(i)]) \in {"object-close-comma", "object-close-final"}

RECURSIVE StrippedLines(_, _)
StrippedLines(i, j) ==
    IF i > j THEN <<>> ELSE Strip(file[i]) \o StrippedLines(i + 1, j)

RECURSIVE ClosedObjects(_)
\* The objects of the file from line i on that have both their open line
\* and their close line, as values, in order.
ClosedObjects(i) ==
    IF i > Len(file) THEN <<>>
    ELSE IF LineClass(file[i]) = "object-open" /\ IsClosed(i)
    THEN <<Loads(StrippedLines(i, BoundaryAfter(i) - 1) \o <<"}">>).v>>
         \o ClosedObjects(BoundaryAfter(i) + 1)
    ELSE ClosedObjects(i + 1)

\* C15: gcloudFormatter returns normally on a file in which an object is
\* opened and never closed, and the lines of its output are then exactly
\* the objects that were opened and closed, in order, each equal to its
\* input: nothing accumulated for the unclosed object is written.
C15_DanglingDropped ==
    (op = "gcloudformatter" /\ pc = "done") =>
        LET ls == ReadLines(output, 1, <<>>)
            os == ClosedObjects(1)
        IN  /\ Len(ls) = Len(os)
            /\ \A i \in 1..Len(ls) :
                  Loads(ls[i]).ok /\ JsonEq(Loads(ls[i]).v, os[i])

Affirmative == {"yes", "Yes", "Y", "y", "YES"}
Negative == {"no", "No", "N", "n", "NO"}

\* Where the protocol puts the run after an answer: on to the writing loop,
\* out of the process, or back to the question.
Protocol(answer) ==
    IF answer \in Affirmative THEN "run"
    ELSE IF answer \in Negative THEN "exited"
    ELSE "prompt"

\* C16: with cont True continuePrompt returns without asking; otherwise
\* every answer takes the run where the protocol says: an affirmative
\* answer lets the caller go on, each of no, No, N, n, NO ends the process,
\* any other answer asks again; and a process ended by the prompt has
\* written nothing to the output.
C16_ConfirmationProtocol ==
    /\ [](pc = "exited" => output = args.existing)
    /\ [][pc = "prompt" =>
            IF args.cont = TRUE THEN pc' = "run"
            ELSE \A answer \in Answers :
                     (pc' = AfterAnswer(answer)) => (pc' = Protocol(answer))]_vars

\* Some condition's path has more segments than the source has a branch for.
TooDeep == \E i \in 1..Len(Conditions) : Len(Conditions[i].fields) > MaxDepth

\* C17: a filter with a path of more than 6 segments is rejected in both
\* modes before any record is read: the run never enters the loop over the
\* records, never returns as done, and nothing is written.
C17_DeepPathRejected ==
    (op = "filter" /\ TooDeep) => (pc \notin {"run", "done"} /\ output = <<>>)

====
